---------------------------- MODULE Spec2Model ----------------------------
(***************************************************************************)
(* A model of the BetterDiscord theme/plugin build script (src/main.py):   *)
(* import inlining (prepare), metadata extraction (get_metadata),          *)
(* minification (minify), output-name templating (get_name) and the        *)
(* pipeline that strings them together (main).                             *)
(*                                                                         *)
(* Text is modelled by TLA+ strings; a character is a string of length 1.  *)
(* Every regular expression and str method of the source is computed on    *)
(* the characters, the way Python's re and str compute it.                 *)
(***************************************************************************)
EXTENDS Naturals, Sequences, FiniteSets, TLC

VARIABLES
    \* minify applied twice
    mInput, mMode, mOnce, mTwice, mPc,
    \* get_name
    nConfig, nMetadata, nResult, nPc,
    \* prepare
    pInput, pFiles, pResult, pPc,
    \* get_metadata
    gInput, gResult, gPc,
    \* main: the configuration, the working directory at the start and now,
    \* the locals of main, whether the artifact reached the BetterDiscord
    \* folder, and where the run stands
    xConfig, xInitial, xFiles, xInput, xComment, xMetadata, xContent,
    xInstalled, xPc

minVars == <<mInput, mMode, mOnce, mTwice, mPc>>
nameVars == <<nConfig, nMetadata, nResult, nPc>>
prepVars == <<pInput, pFiles, pResult, pPc>>
metaVars == <<gInput, gResult, gPc>>
mainVars == <<xConfig, xInitial, xFiles, xInput, xComment, xMetadata, xContent,
              xInstalled, xPc>>
vars == <<minVars, nameVars, prepVars, metaVars, mainVars>>

---------------------------------------------------------------------------
(* Bounds of the model.                                                    *)

\* Longest enumerated input of minify.
MaxLen == 4

\* Most tokens of an enumerated file-name template.
MaxTokens == 3

\* Most segments of an enumerated input of prepare.
MaxSegments == 3

\* Most parts of an enumerated input of get_metadata.
MaxParts == 4

\* Most pieces of an enumerated entry file of main.
MaxPieces == 2

---------------------------------------------------------------------------
(* Strings.                                                                *)

\* The character of s at position i (1-based), "" outside s.
At(s, i) == IF i >= 1 /\ i <= Len(s) THEN SubSeq(s, i, i) ELSE ""

\* Whether the literal lit occurs in s at position i.
StartsAt(s, i, lit) ==
    /\ i >= 1
    /\ i + Len(lit) - 1 <= Len(s)
    /\ SubSeq(s, i, i + Len(lit) - 1) = lit

\* Whether lit occurs somewhere in s (Python's `lit in s`).
Contains(s, lit) == \E i \in 1..Len(s) : StartsAt(s, i, lit)

\* The positions j >= lo of s at which lit occurs.
Occurrences(s, lo, lit) == {j \in lo..Len(s) : StartsAt(s, j, lit)}

Max(S) == CHOOSE j \in S : \A k \in S : k <= j
Min(S) == CHOOSE j \in S : \A k \in S : j <= k

\* The first position j >= lo of s at which lit occurs, 0 for none.
NextOccurrence(s, lo, lit) ==
    LET found == Occurrences(s, lo, lit)
    IN  IF found = {} THEN 0 ELSE Min(found)

\* The characters str.strip() removes, among those a TLA+ string can hold.
Whitespace == {" ", "\t", "\n", "\r"}

RECURSIVE LStrip(_)
LStrip(s) == IF Len(s) > 0 /\ At(s, 1) \in Whitespace THEN LStrip(Tail(s)) ELSE s

RECURSIVE RStrip(_)
RStrip(s) ==
    IF Len(s) > 0 /\ At(s, Len(s)) \in Whitespace
    THEN RStrip(SubSeq(s, 1, Len(s) - 1))
    ELSE s

\* str.strip()
Strip(s) == LStrip(RStrip(s))

\* The first position at or after i of s that holds no space (the regex " *").
RECURSIVE SkipSpaces(_, _)
SkipSpaces(s, i) == IF At(s, i) = " " THEN SkipSpaces(s, i + 1) ELSE i

\* The least position m >= lo such that s[m..j-1] holds only spaces.
RECURSIVE SkipSpacesBack(_, _, _)
SkipSpacesBack(s, j, lo) ==
    IF j > lo /\ At(s, j - 1) = " " THEN SkipSpacesBack(s, j - 1, lo) ELSE j

\* str.replace(old, new) from position i: every non-overlapping occurrence
\* of old, left to right.
RECURSIVE ReplaceFrom(_, _, _, _)
ReplaceFrom(s, i, old, new) ==
    LET j == NextOccurrence(s, i, old)
    IN  IF j = 0 THEN SubSeq(s, i, Len(s))
        ELSE SubSeq(s, i, j - 1) \o new \o ReplaceFrom(s, j + Len(old), old, new)

Replace(s, old, new) == ReplaceFrom(s, 1, old, new)

\* All strings over the alphabet of length at most n.
RECURSIVE Strings(_, _)
Strings(alphabet, n) ==
    IF n = 0 THEN {""}
    ELSE LET shorter == Strings(alphabet, n - 1)
         IN  shorter \cup {s \o c : s \in shorter, c \in alphabet}

---------------------------------------------------------------------------
(* minify (src/main.py 170-195).                                           *)

\* re.split(r" *\n *", s) from position cur, where a piece starts: the next
\* match is the next newline with the spaces around it.
RECURSIVE SplitFrom(_, _)
SplitFrom(s, cur) ==
    LET j == NextOccurrence(s, cur, "\n")
    IN  IF j = 0 THEN <<SubSeq(s, cur, Len(s))>>
        ELSE <<SubSeq(s, cur, SkipSpacesBack(s, j, cur) - 1)>>
                 \o SplitFrom(s, SkipSpaces(s, j + 1))

SplitLines(s) == SplitFrom(s, 1)

\* The loop `for line in lines: output += line.strip()`.
RECURSIVE JoinStripped(_)
JoinStripped(lines) ==
    IF lines = <<>> THEN ""
    ELSE Strip(Head(lines)) \o JoinStripped(Tail(lines))

\* The greatest j >= lo at which "*/" occurs with no newline in s[lo..j-1]
\* (the greedy ".*" of r"/\*.*\*/" does not cross a newline), 0 for none.
LastCommentClose(s, lo) ==
    LET ends == {j \in lo..Len(s) :
                    /\ StartsAt(s, j, "*/")
                    /\ \A k \in lo..(j - 1) : At(s, k) # "\n"}
    IN  IF ends = {} THEN 0 ELSE CHOOSE j \in ends : \A k \in ends : k <= j

\* re.sub(r"(/\*.*\*/)", "", s) from position i: the next match starts at
\* the first "/*" that a "*/" closes.
RECURSIVE StripCommentsFrom(_, _)
StripCommentsFrom(s, i) ==
    LET starts == {k \in Occurrences(s, i, "/*") : LastCommentClose(s, k + 2) # 0}
    IN  IF starts = {} THEN SubSeq(s, i, Len(s))
        ELSE SubSeq(s, i, Min(starts) - 1)
                 \o StripCommentsFrom(s, LastCommentClose(s, Min(starts) + 2) + 2)

StripComments(s) == StripCommentsFrom(s, 1)

\* re.sub, from position i, of the regex made of " *" (when pre), the
\* literal lit (which holds no space) and " *" (when post), by lit: the next
\* match is the next lit with the spaces before it (when pre) and after it
\* (when post).
RECURSIVE SubSpacedFrom(_, _, _, _, _)
SubSpacedFrom(s, i, pre, lit, post) ==
    LET j == NextOccurrence(s, i, lit)
        from == IF pre THEN SkipSpacesBack(s, j, i) ELSE j
        to == IF post THEN SkipSpaces(s, j + Len(lit)) ELSE j + Len(lit)
    IN  IF j = 0 THEN SubSeq(s, i, Len(s))
        ELSE SubSeq(s, i, from - 1) \o lit \o SubSpacedFrom(s, to, pre, lit, post)

SubSpaced(s, pre, lit, post) == SubSpacedFrom(s, 1, pre, lit, post)

\* The theme branch with the "!important" rule (line 191) left out.
minifyThemeKeepsSpaceBeforeImportant(input) ==
    LET joined    == JoinStripped(SplitLines(input))
        noComment == StripComments(joined)
        brace     == SubSpaced(noComment, TRUE, "{", FALSE)
        colon     == SubSpaced(brace, FALSE, ":", TRUE)
        comma     == SubSpaced(colon, TRUE, ",", TRUE)
    IN  Replace(comma, ";}", "}")

\* The theme branch of minify, line by line.
minifyTheme(input) ==
    LET joined    == JoinStripped(SplitLines(input))
        noComment == StripComments(joined)
        brace     == SubSpaced(noComment, TRUE, "{", FALSE)
        colon     == SubSpaced(brace, FALSE, ":", TRUE)
        comma     == SubSpaced(colon, TRUE, ",", TRUE)
        important == SubSpaced(comma, TRUE, "!important", FALSE)
    IN  Replace(important, ";}", "}")

minify(input, mode) == IF mode = "theme" THEN minifyTheme(input) ELSE input

---------------------------------------------------------------------------
(* get_metadata (src/main.py 134-150).                                     *)

Lower == {"a", "b", "c", "d", "e", "f", "g", "h", "i", "j", "k", "l", "m",
          "n", "o", "p", "q", "r", "s", "t", "u", "v", "w", "x", "y", "z"}

Upper == {"A", "B", "C", "D", "E", "F", "G", "H", "I", "J", "K", "L", "M",
          "N", "O", "P", "Q", "R", "S", "T", "U", "V", "W", "X", "Y", "Z"}

\* The first match of r"/\*\*.*\*/" under re.S in s: its first and last
\* positions, <<0, 0>> for no match.  The match starts at the leftmost
\* "/**" that some "*/" follows, and ".*" being greedy and matching
\* newlines, it ends with the last "*/" of s.
FirstDocMatch(s) ==
    LET starts == {i \in Occurrences(s, 1, "/**") : Occurrences(s, i + 3, "*/") # {}}
    IN  IF starts = {} THEN <<0, 0>>
        ELSE LET i == Min(starts)
             IN  <<i, Max(Occurrences(s, i + 3, "*/")) + 1>>

\* The first position at or after i of s that holds no ASCII letter.
RECURSIVE SkipLetters(_, _)
SkipLetters(s, i) ==
    IF At(s, i) \in (Lower \cup Upper) THEN SkipLetters(s, i + 1) ELSE i

\* The first position at or after i of s that holds a newline, or Len(s)+1.
LineEnd(s, i) ==
    LET j == NextOccurrence(s, i, "\n")
    IN  IF j = 0 THEN Len(s) + 1 ELSE j

\* The loop of lines 147-148 over re.findall(r"@([a-zA-Z]+) (.*)", s) from
\* position i: output with each key set to the rest of its line.
RECURSIVE ParseKeysFrom(_, _, _)
ParseKeysFrom(s, i, output) ==
    LET starts == {a \in Occurrences(s, i, "@") :
                      /\ SkipLetters(s, a + 1) > a + 1
                      /\ At(s, SkipLetters(s, a + 1)) = " "}
    IN  IF starts = {} THEN output
        ELSE LET k == SkipLetters(s, Min(starts) + 1)
                 e == LineEnd(s, k + 1)
                 key == SubSeq(s, Min(starts) + 1, k - 1)
                 value == SubSeq(s, k + 1, e - 1)
             IN  ParseKeysFrom(s, e,
                     [x \in DOMAIN output \cup {key} |->
                         IF x = key THEN value ELSE output[x]])

NoMetadata == [k \in {} |-> ""]

ParseKeys(s) == ParseKeysFrom(s, 1, NoMetadata)

\* get_metadata: log("crit", ...) leaves the program when nothing matches.
get_metadata(input) ==
    LET m == FirstDocMatch(input)
    IN  IF m = <<0, 0>>
        THEN [error |-> "crit", comment |-> "", metadata |-> NoMetadata]
        ELSE LET comment == SubSeq(input, m[1], m[2])
             IN  [error |-> "", comment |-> comment, metadata |-> ParseKeys(comment)]

---------------------------------------------------------------------------
(* prepare (src/main.py 153-167).                                          *)

ImportOpen == "@import url(\""
ImportClose == "\");"

\* The directive text line 165 rebuilds from a matched path.
ImportDirective(path) == ImportOpen \o path \o ImportClose

\* re.findall(r"@import url\(\"(.+)\"\);", s) from position i: the paths,
\* in order.  ".+" is greedy within the line: a match runs to the last
\* "\");" of its line.
\* The positions at which a "\");" can end the match whose path starts at
\* from: after at least one character, and on the same line.
ImportCloses(s, from) ==
    {j \in Occurrences(s, from + 1, ImportClose) :
        j + Len(ImportClose) <= LineEnd(s, from)}

RECURSIVE ImportsFrom(_, _)
ImportsFrom(s, i) ==
    LET starts == {k \in Occurrences(s, i, ImportOpen) :
                      ImportCloses(s, k + Len(ImportOpen)) # {}}
    IN  IF starts = {} THEN <<>>
        ELSE LET from == Min(starts) + Len(ImportOpen)
                 j == Max(ImportCloses(s, from))
             IN  <<SubSeq(s, from, j - 1)>> \o ImportsFrom(s, j + Len(ImportClose))

FindImports(s) == ImportsFrom(s, 1)

RECURSIVE LStripSlashes(_)
LStripSlashes(s) == IF At(s, 1) = "/" THEN LStripSlashes(Tail(s)) ELSE s

RECURSIVE RStripSlashes(_)
RStripSlashes(s) ==
    IF At(s, Len(s)) = "/" THEN RStripSlashes(SubSeq(s, 1, Len(s) - 1)) ELSE s

\* _import.strip("/"): the file os.path.join(os.path.curdir, ...) names.
ImportTarget(path) == LStripSlashes(RStripSlashes(path))

\* The loop of lines 162-165: files maps the names of the readable files of
\* the working directory to their content; open() raises for any other.
RECURSIVE PrepareLoop(_, _, _)
PrepareLoop(output, todo, files) ==
    IF todo = <<>> THEN [error |-> "", value |-> output]
    ELSE LET name == ImportTarget(Head(todo))
         IN  IF name \notin DOMAIN files
             THEN [error |-> "OSError", value |-> ""]
             ELSE PrepareLoop(Replace(output, ImportDirective(Head(todo)), files[name]),
                              Tail(todo), files)

\* prepare with an import whose file cannot be opened left as it stands.
RECURSIVE PrepareLoopSkippingMissing(_, _, _)
PrepareLoopSkippingMissing(output, todo, files) ==
    IF todo = <<>> THEN [error |-> "", value |-> output]
    ELSE LET name == ImportTarget(Head(todo))
         IN  IF name \notin DOMAIN files
             THEN PrepareLoopSkippingMissing(output, Tail(todo), files)
             ELSE PrepareLoopSkippingMissing(
                      Replace(output, ImportDirective(Head(todo)), files[name]),
                      Tail(todo), files)

prepareSkippingMissing(input, files) ==
    PrepareLoopSkippingMissing(input, FindImports(input), files)

prepare(input, files) == PrepareLoop(input, FindImports(input), files)

---------------------------------------------------------------------------
(* get_name (src/main.py 198-222).                                         *)

\* The first position at or after i of s that holds no lowercase letter.
RECURSIVE SkipLower(_, _)
SkipLower(s, i) == IF At(s, i) \in Lower THEN SkipLower(s, i + 1) ELSE i

\* re.findall(r"\$([a-z]+)", s) from position i: the words, in order.
RECURSIVE PlaceholdersFrom(_, _)
PlaceholdersFrom(s, i) ==
    LET starts == {k \in Occurrences(s, i, "$") : At(s, k + 1) \in Lower}
    IN  IF starts = {} THEN <<>>
        ELSE LET e == SkipLower(s, Min(starts) + 1)
             IN  <<SubSeq(s, Min(starts) + 1, e - 1)>> \o PlaceholdersFrom(s, e)

FindPlaceholders(s) == PlaceholdersFrom(s, 1)

\* The list of line 211.
Recognized == {"name", "version", "author", "type", "ext"}

DefaultTemplate == "$name-$version.$type.$ext"

\* config.get("output", {}).get("name", "$name-$version.$type.$ext")
TemplateOf(config) ==
    IF "outputName" \in DOMAIN config THEN config.outputName ELSE DefaultTemplate

\* The keys the dict literal of lines 214-220 reads from metadata, whatever
\* the placeholder: the literal is built whole before it is indexed.
LiteralKeys == {"name", "version", "author"}

\* The dict literal of lines 214-220, indexed by the placeholder.
Substitute(placeholder, config, metadata) ==
    CASE placeholder = "name"    -> Replace(metadata["name"], " ", "")
      [] placeholder = "version" -> metadata["version"]
      [] placeholder = "author"  -> metadata["author"]
      [] placeholder = "type"    -> config.type
      [] placeholder = "ext"     -> IF config.type = "theme" THEN "css" ELSE "js"

\* The loop of lines 210-220 run over the placeholders last to first.
RECURSIVE NameLoopReversed(_, _, _, _)
NameLoopReversed(output, todo, config, metadata) ==
    IF todo = <<>> THEN [error |-> "", value |-> output]
    ELSE LET placeholder == todo[Len(todo)]
             rest == SubSeq(todo, 1, Len(todo) - 1)
         IN  IF placeholder \notin Recognized
             THEN NameLoopReversed(output, rest, config, metadata)
             ELSE IF ~(LiteralKeys \subseteq DOMAIN metadata)
                  THEN [error |-> "KeyError", value |-> ""]
                  ELSE NameLoopReversed(
                           Replace(output, "$" \o placeholder,
                                   Substitute(placeholder, config, metadata)),
                           rest, config, metadata)

\* The loop of lines 210-220: todo are the placeholders still to visit,
\* output the template as substituted so far.
RECURSIVE NameLoop(_, _, _, _)
NameLoop(output, todo, config, metadata) ==
    IF todo = <<>> THEN [error |-> "", value |-> output]
    ELSE LET placeholder == Head(todo)
         IN  IF placeholder \notin Recognized
             THEN NameLoop(output, Tail(todo), config, metadata)
             ELSE IF ~(LiteralKeys \subseteq DOMAIN metadata)
                  THEN [error |-> "KeyError", value |-> ""]
                  ELSE NameLoop(
                           Replace(output, "$" \o placeholder,
                                   Substitute(placeholder, config, metadata)),
                           Tail(todo), config, metadata)

get_name(config, metadata) ==
    LET original == TemplateOf(config)
    IN  NameLoop(original, FindPlaceholders(original), config, metadata)

---------------------------------------------------------------------------
(* Minification applied once and then again to its own output.             *)

MinifyAlphabet == {"a", " ", "\n", ";", "}", "/", "*"}

\* The two examples of the specification's section 8.
ExampleA == ".a {\n  color: red , blue ;}"
ExampleB == ".b { color: red !important ; }"

MinifyInputs == Strings(MinifyAlphabet, MaxLen) \cup {ExampleA, ExampleB}

Modes == {"theme", "plugin"}

\* The variables of the other operations, at rest.
MinifyIdle ==
    /\ mInput = ""
    /\ mMode = "theme"
    /\ mOnce = ""
    /\ mTwice = ""
    /\ mPc = "idle"

PrepareIdle ==
    /\ pInput = ""
    /\ pFiles = NoMetadata
    /\ pResult = [error |-> "", value |-> ""]
    /\ pPc = "idle"

MetadataIdle ==
    /\ gInput = ""
    /\ gResult = [error |-> "", comment |-> "", metadata |-> NoMetadata]
    /\ gPc = "idle"

MainIdle ==
    /\ xConfig = [type |-> "theme"]
    /\ xInitial = NoMetadata
    /\ xFiles = NoMetadata
    /\ xInput = ""
    /\ xComment = ""
    /\ xMetadata = NoMetadata
    /\ xContent = ""
    /\ xInstalled = FALSE
    /\ xPc = "idle"

NameIdle ==
    /\ nConfig = [type |-> "theme"]
    /\ nMetadata = NoMetadata
    /\ nResult = [error |-> "", value |-> ""]
    /\ nPc = "idle"

InitMinify ==
    /\ MainIdle
    /\ NameIdle
    /\ PrepareIdle
    /\ MetadataIdle
    /\ mInput \in MinifyInputs
    /\ mMode \in Modes
    /\ mOnce = ""
    /\ mTwice = ""
    /\ mPc = "start"

Minify ==
    /\ mPc = "start"
    /\ mOnce' = minify(mInput, mMode)
    /\ mPc' = "once"
    /\ UNCHANGED <<mInput, mMode, mTwice, nameVars, prepVars, metaVars, mainVars>>

Reminify ==
    /\ mPc = "once"
    /\ mTwice' = minify(mOnce, mMode)
    /\ mPc' = "twice"
    /\ UNCHANGED <<mInput, mMode, mOnce, nameVars, prepVars, metaVars, mainVars>>

NextMinify == Minify \/ Reminify

SpecMinify == InitMinify /\ [][NextMinify]_vars

\* C1: theme-mode minification is idempotent: minifying the minified text
\* again gives the same text.
MinifyIdempotent ==
    (mPc = "twice" /\ mMode = "theme") => mTwice = mOnce

\* C2 (as amended): on the specification's two examples theme-mode minify
\* keeps the space after "{" and before ";" and "}", and drops ";" before
\* "}" only where the two are adjacent.
MinifyExamplesAsComputed ==
    (mPc # "start" /\ mMode = "theme") =>
        /\ (mInput = ExampleA => mOnce = ".a{color:red,blue }")
        /\ (mInput = ExampleB => mOnce = ".b{ color:red!important ; }")

\* C2 (as stated): the examples come out whitespace-minimal.
MinifyExamplesAsSpecified ==
    (mPc # "start" /\ mMode = "theme") =>
        /\ (mInput = ExampleA => mOnce = ".a{color:red,blue}")
        /\ (mInput = ExampleB => mOnce = ".b{color:red!important;}")

\* The second example has been minified in theme mode.
MinifyExampleReached ==
    mPc = "once" /\ mMode = "theme" /\ mInput = ExampleB /\ Contains(mOnce, "!important")

---------------------------------------------------------------------------
(* get_name applied to a configuration and a metadata mapping.             *)

\* The pieces templates are built from: recognized placeholders ($type is
\* in the default template), two
\* unrecognized ones that extend a recognized one, one that does not, and a
\* separator.
TemplateTokens ==
    {"$name", "$version", "$author", "$ext", "$extra", "$names", "$unknown", "."}

\* All concatenations of at most n tokens.
RECURSIVE Templates(_)
Templates(n) ==
    IF n = 0 THEN {""}
    ELSE LET shorter == Templates(n - 1)
         IN  shorter \cup {s \o t : s \in shorter, t \in TemplateTokens}

\* Values of @name and @version: plain ones, and ones that hold a token.
NameValues == {"My Theme", "$version"}
VersionValues == {"2.0", "$name"}

\* The mappings get_metadata can return over the keys get_name reads.
NameMetadata ==
    {[k \in keys |-> CASE k = "name" -> n
                       [] k = "version" -> v
                       [] k = "author" -> "me"] :
        keys \in SUBSET LiteralKeys, n \in NameValues, v \in VersionValues}

NameConfigs ==
    {[type |-> t] : t \in Modes}
    \cup {[type |-> t, outputName |-> tpl] : t \in Modes, tpl \in Templates(MaxTokens)}

InitName ==
    /\ MainIdle
    /\ MinifyIdle
    /\ PrepareIdle
    /\ MetadataIdle
    /\ nConfig \in NameConfigs
    /\ nMetadata \in NameMetadata
    /\ nResult = [error |-> "", value |-> ""]
    /\ nPc = "start"

GetName ==
    /\ nPc = "start"
    /\ nResult' = get_name(nConfig, nMetadata)
    /\ nPc' = "done"
    /\ UNCHANGED <<nConfig, nMetadata, minVars, prepVars, metaVars, mainVars>>

NextName == GetName

SpecName == InitName /\ [][NextName]_vars

\* The words of the placeholders of the template get_name was given.
NamePlaceholders == FindPlaceholders(TemplateOf(nConfig))

\* The metadata key a recognized placeholder takes its value from, "" for
\* $type and $ext, which come from the configuration.
SourceKey(placeholder) ==
    IF placeholder \in LiteralKeys THEN placeholder ELSE ""

\* C3: get_name needs only the metadata keys of the placeholders in the
\* template: the default template with name "My Theme" and version "2.0"
\* and no author gives "MyTheme-2.0.theme.css", and a missing-key error
\* arises only when a recognized placeholder of the template has its source
\* key absent.
NameNeedsOnlyUsedKeys ==
    nPc = "done" =>
        /\ ( /\ TemplateOf(nConfig) = DefaultTemplate
             /\ nConfig.type = "theme"
             /\ DOMAIN nMetadata = {"name", "version"}
             /\ nMetadata["name"] = "My Theme"
             /\ nMetadata["version"] = "2.0" )
           => nResult = [error |-> "", value |-> "MyTheme-2.0.theme.css"]
        /\ nResult.error # "" =>
               \E i \in 1..Len(NamePlaceholders) :
                   /\ NamePlaceholders[i] \in LiteralKeys
                   /\ SourceKey(NamePlaceholders[i]) \notin DOMAIN nMetadata

\* C4: every unrecognized placeholder token of the template appears
\* unchanged in the name get_name returns.
UnknownPlaceholdersKept ==
    (nPc = "done" /\ nResult.error = "") =>
        \A i \in 1..Len(NamePlaceholders) :
            NamePlaceholders[i] \notin Recognized
                => Contains(nResult.value, "$" \o NamePlaceholders[i])

\* The positions of the placeholder list P that hold the word p.
Visits(P, p) == {i \in 1..Len(P) : P[i] = p}

\* The value the loop inserts for the recognized placeholder p.
Inserted(p) == Substitute(p, nConfig, nMetadata)

\* C10: substitution is sequential, in the order of the placeholders in the
\* template, each replacement acting on the template as substituted so far.
\* A "$q" inside the value inserted for p is replaced in its turn when q is
\* visited after p's first visit (no "$q" is left, unless a value inserted
\* at or after q's visits brings one), and a "$p" inside the value inserted
\* for q stays in the result when p is visited only before q.
SequentialSubstitution ==
    (nPc = "done" /\ nResult.error = "") =>
        LET P == NamePlaceholders
            visited == {P[i] : i \in 1..Len(P)} \cap Recognized
            carriers == {p \in visited : Contains(Inserted(p), "$")}
        IN  /\ \A p \in carriers, q \in visited :
                  ( /\ p # q
                    /\ Contains(Inserted(p), "$" \o q)
                    /\ q \notin carriers
                    /\ \E i \in Visits(P, p), j \in Visits(P, q) : i < j
                    /\ \A i \in Visits(P, q) : \A k \in (i + 1)..Len(P) :
                          P[k] \in carriers
                              => ~Contains(Inserted(P[k]), "$" \o q) )
                  => ~Contains(nResult.value, "$" \o q)
            /\ \A q \in carriers, p \in Recognized :
                  ( /\ p # q
                    /\ Contains(Inserted(q), "$" \o p)
                    /\ \A i \in Visits(P, p), j \in Visits(P, q) : i < j )
                  => Contains(nResult.value, "$" \o p)
            /\ ( /\ TemplateOf(nConfig) = "$name.$version"
                 /\ nMetadata["name"] = "$version"
                 /\ nMetadata["version"] = "2.0" )
               => nResult.value = "2.0.2.0"
            /\ ( /\ TemplateOf(nConfig) = "$name.$version"
                 /\ nMetadata["name"] = "My Theme"
                 /\ nMetadata["version"] = "$name" )
               => nResult.value = "MyTheme.$name"

\* A name was resolved in which the value of $name brought a "$version"
\* that the later visit of $version replaced.
ResubstitutionReached ==
    /\ nPc = "done"
    /\ nResult = [error |-> "", value |-> "2.0.2.0"]
    /\ TemplateOf(nConfig) = "$name.$version"
    /\ nMetadata["name"] = "$version"

---------------------------------------------------------------------------
(* prepare applied to an entry text and a working directory.               *)

DirectiveA == ImportDirective("a.css")
DirectiveB == ImportDirective("b.css")

PrepareSegments == {DirectiveA, DirectiveB, "\n", "x"}

\* All concatenations of at most n segments.
RECURSIVE Concatenations(_, _)
Concatenations(segments, n) ==
    IF n = 0 THEN {""}
    ELSE LET shorter == Concatenations(segments, n - 1)
         IN  shorter \cup {s \o t : s \in shorter, t \in segments}

\* Working directories: a.css and b.css each present or not; a.css may
\* itself hold an import of b.css.
PrepareFiles ==
    {[k \in names |-> IF k = "a.css" THEN a ELSE "B"] :
        names \in SUBSET {"a.css", "b.css"}, a \in {"A", DirectiveB}}

InitPrepare ==
    /\ MainIdle
    /\ MinifyIdle
    /\ NameIdle
    /\ MetadataIdle
    /\ pInput \in Concatenations(PrepareSegments, MaxSegments)
    /\ pFiles \in PrepareFiles
    /\ pResult = [error |-> "", value |-> ""]
    /\ pPc = "start"

Prepare ==
    /\ pPc = "start"
    /\ pResult' = prepare(pInput, pFiles)
    /\ pPc' = "done"
    /\ UNCHANGED <<pInput, pFiles, minVars, nameVars, metaVars, mainVars>>

NextPrepare == Prepare

SpecPrepare == InitPrepare /\ [][NextPrepare]_vars

\* The paths of the directives written in the enumerated entry texts.
DirectivePaths == {"a.css", "b.css"}

\* The text s from position i with every directive replaced, where it
\* stands, by the content of its file.
RECURSIVE InlinedInPlace(_, _, _)
InlinedInPlace(s, i, files) ==
    IF i > Len(s) THEN ""
    ELSE LET here == {q \in DirectivePaths : StartsAt(s, i, ImportDirective(q))}
         IN  IF here = {} THEN At(s, i) \o InlinedInPlace(s, i + 1, files)
             ELSE LET q == CHOOSE x \in here : TRUE
                  IN  files[q] \o InlinedInPlace(s, i + Len(ImportDirective(q)), files)

\* C5: when the entry text holds directives and every target exists, the
\* output of prepare is the entry text with each directive replaced, where
\* it stood, by its file's content.
ImportsInlinedInPlace ==
    ( /\ pPc = "done"
      /\ \E q \in DirectivePaths : Contains(pInput, ImportDirective(q))
      /\ \A q \in DirectivePaths :
            Contains(pInput, ImportDirective(q)) => q \in DOMAIN pFiles )
    => pResult = [error |-> "", value |-> InlinedInPlace(pInput, 1, pFiles)]

\* C9: a directive inside the content of an imported file is still in the
\* output of prepare.
ImportedTextNotScanned ==
    (pPc = "done" /\ pResult.error = "") =>
        \A i \in 1..Len(FindImports(pInput)) : \A q \in DirectivePaths :
            Contains(pFiles[ImportTarget(FindImports(pInput)[i])], ImportDirective(q))
                => Contains(pResult.value, ImportDirective(q))

---------------------------------------------------------------------------
(* get_metadata applied to a text.                                         *)

MetadataParts == {"/**", "*/", "@name A", "@media s", "\n", "x"}

InitMetadata ==
    /\ MainIdle
    /\ MinifyIdle
    /\ NameIdle
    /\ PrepareIdle
    /\ gInput \in Concatenations(MetadataParts, MaxParts)
    /\ gResult = [error |-> "", comment |-> "", metadata |-> NoMetadata]
    /\ gPc = "start"

GetMetadata ==
    /\ gPc = "start"
    /\ gResult' = get_metadata(gInput)
    /\ gPc' = "done"
    /\ UNCHANGED <<gInput, minVars, nameVars, prepVars, mainVars>>

NextMetadata == GetMetadata

SpecMetadata == InitMetadata /\ [][NextMetadata]_vars

\* The span of s from its first "/**" to the first "*/" that follows it.
FirstBlock(s) ==
    LET starts == {i \in Occurrences(s, 1, "/**") : Occurrences(s, i + 3, "*/") # {}}
        i == Min(starts)
    IN  SubSeq(s, i, Min(Occurrences(s, i + 3, "*/")) + 1)

\* C6: the doc comment returned is the first block comment, up to the first
\* "*/" after its "/**", and the metadata holds the "@key value" lines of
\* that span only.
DocCommentIsFirstBlock ==
    (gPc = "done" /\ gResult.error = "") =>
        /\ gResult.comment = FirstBlock(gInput)
        /\ gResult.metadata = ParseKeys(FirstBlock(gInput))

---------------------------------------------------------------------------
(* main (src/main.py 225-272): one run of the pipeline.                    *)

\* dict.get(key, default)
Get(config, key, default) == IF key \in DOMAIN config THEN config[key] ELSE default

\* Line 232: the entry file main opens.
InputFile(config) ==
    Get(config, "mainFilename", config.type)
        \o "." \o (IF config.type = "theme" THEN "css" ELSE "js")

\* Line 249 read with the key as the specification spells it.
WantsMinifyAsSpecified(config) == Get(config, "doMinify", FALSE)

\* Line 249: config.get("options", {}).get("doMimize", False)
WantsMinify(config) == Get(config, "doMimize", FALSE)

\* Lines 255 and 258: os.path.join(os.getcwd(), folder, name), relative to
\* the working directory.
OutputPath(config, name) ==
    LET folder == Get(config, "outputFolder", "")
    IN  IF folder = "" THEN name ELSE folder \o "/" \o name

\* The keys lines 241-243 read.
MainKeys == {"name", "version", "author"}

\* The doc comment of a theme, whole and without its @author line.
Header == "/**\n@name My Theme\n@version 2.0\n@author me\n*/\n"
HeaderNoAuthor == "/**\n@name My Theme\n@version 2.0\n*/\n"
\* The rest of a theme: an import and a rule.
Body == DirectiveA \o "\n.a {\n  b: c , d ;}\n"

EntryPieces == {Header, HeaderNoAuthor, Body}

\* What a.css may hold when it exists: a rule, or the doc comment itself.
ImportedContents == {".b { c: d ; }\n", Header}

\* The options of bdproject.yml beside "type".
MainOptions ==
    {NoMetadata, [doMimize |-> TRUE], [doMimize |-> FALSE], [doMinify |-> TRUE]}
MainOutputs == {NoMetadata, [outputName |-> "$author.$ext", outputFolder |-> "dist"]}
MainInstalls == {NoMetadata, [autoMoveToBetterDiscordFolder |-> TRUE]}

\* The configurations find_config may return: every type with every option
\* and output setting, and every type with the copy to BetterDiscord asked.
MainConfigs ==
    {[type |-> t] @@ o @@ out : t \in Modes, o \in MainOptions, out \in MainOutputs}
    \cup {[type |-> t] @@ inst : t \in Modes, inst \in MainInstalls}

InitMain ==
    /\ MinifyIdle
    /\ NameIdle
    /\ PrepareIdle
    /\ MetadataIdle
    /\ xConfig \in MainConfigs
    /\ \E entry \in Concatenations(EntryPieces, MaxPieces),
          others \in {NoMetadata} \cup {[k \in {"a.css"} |-> c] : c \in ImportedContents} :
           xInitial = (InputFile(xConfig) :> entry) @@ others
    /\ xFiles = xInitial
    /\ xInput = ""
    /\ xComment = ""
    /\ xMetadata = NoMetadata
    /\ xContent = ""
    /\ xInstalled = FALSE
    /\ xPc = "start"

\* Lines 231-237: open the entry file and inline its imports; an exception
\* of open() is not caught.
ReadInput ==
    /\ xPc = "start"
    /\ LET file == InputFile(xConfig)
           r == IF file \in DOMAIN xFiles
                THEN prepare(xFiles[file], xFiles)
                ELSE [error |-> "OSError", value |-> ""]
       IN  IF r.error # ""
           THEN xPc' = "raised" /\ UNCHANGED xInput
           ELSE xPc' = "prepared" /\ xInput' = r.value
    /\ UNCHANGED <<xConfig, xInitial, xFiles, xComment, xMetadata, xContent, xInstalled>>
    /\ UNCHANGED <<minVars, nameVars, prepVars, metaVars>>

\* Lines 240-244: get_metadata leaves the program through log("crit", ...)
\* when there is no comment; reading a key that is absent raises KeyError.
FindMetadata ==
    /\ xPc = "prepared"
    /\ LET r == get_metadata(xInput)
       IN  IF r.error # ""
           THEN xPc' = "exited" /\ UNCHANGED <<xComment, xMetadata>>
           ELSE /\ xComment' = r.comment
                /\ xMetadata' = r.metadata
                /\ xPc' = IF MainKeys \subseteq DOMAIN r.metadata
                          THEN "described" ELSE "raised"
    /\ UNCHANGED <<xConfig, xInitial, xFiles, xInput, xContent, xInstalled>>
    /\ UNCHANGED <<minVars, nameVars, prepVars, metaVars>>

\* Lines 248-251.
MinifyContent ==
    /\ xPc = "described"
    /\ xContent' = IF WantsMinify(xConfig)
                   THEN minify(xInput, xConfig.type) ELSE xInput
    /\ xPc' = "content"
    /\ UNCHANGED <<xConfig, xInitial, xFiles, xInput, xComment, xMetadata, xInstalled>>
    /\ UNCHANGED <<minVars, nameVars, prepVars, metaVars>>

\* Lines 254-262: resolve the name, then write the artifact.  open() of an
\* empty name (the folder itself) raises.
SaveOutput ==
    /\ xPc = "content"
    /\ LET r == get_name(xConfig, xMetadata)
       IN  IF r.error # "" \/ r.value = ""
           THEN xPc' = "raised" /\ UNCHANGED xFiles
           ELSE /\ xFiles' = (OutputPath(xConfig, r.value) :> (xComment \o "\n" \o xContent))
                                 @@ xFiles
                /\ xPc' = "saved"
    /\ UNCHANGED <<xConfig, xInitial, xInput, xComment, xMetadata, xContent, xInstalled>>
    /\ UNCHANGED <<minVars, nameVars, prepVars, metaVars>>

\* Lines 267-272: the copy into the BetterDiscord folder, which the host may
\* or may not have (find_betterdiscord then leaves through log("crit", ...)).
MoveToBetterDiscord ==
    /\ xPc = "saved"
    /\ IF Get(xConfig, "autoMoveToBetterDiscordFolder", FALSE)
       THEN \E found \in BOOLEAN :
                /\ xInstalled' = found
                /\ xPc' = IF found THEN "finished" ELSE "notInstalled"
       ELSE xPc' = "finished" /\ UNCHANGED xInstalled
    /\ UNCHANGED <<xConfig, xInitial, xFiles, xInput, xComment, xMetadata, xContent>>
    /\ UNCHANGED <<minVars, nameVars, prepVars, metaVars>>

NextMain ==
    \/ ReadInput
    \/ FindMetadata
    \/ MinifyContent
    \/ SaveOutput
    \/ MoveToBetterDiscord

SpecMain == InitMain /\ [][NextMain]_vars

\* The text of the entry file at the start of the run.
EntryText == xInitial[InputFile(xConfig)]

\* Whether s holds a "/** ... */" block.
HasDocBlock(s) ==
    \E i \in Occurrences(s, 1, "/**") : Occurrences(s, i + 3, "*/") # {}

\* Whether some import of the entry text names a file that does not exist.
ImportMissing ==
    LET imports == FindImports(EntryText)
    IN  \E i \in 1..Len(imports) : ImportTarget(imports[i]) \notin DOMAIN xInitial

\* The places of a run at which nothing can have been written yet.
BeforeSave == {"start", "prepared", "described", "content", "raised", "exited"}

\* The entry text with its imports inlined, as the run will compute it.
Inlined == prepare(EntryText, xInitial).value

\* Whether the run is one that must abort: an import target is missing, the
\* inlined text has no "/** ... */" block, or a required key is absent.
MustAbort ==
    \/ ImportMissing
    \/ ~HasDocBlock(Inlined)
    \/ ~(MainKeys \subseteq DOMAIN get_metadata(Inlined).metadata)

\* C7 (as amended): the artifact is written only after every stage has
\* succeeded.  Nothing is written before SaveOutput; what is written is
\* written with every import found, a doc comment, the required keys and a
\* resolved name; and when an import target is missing, the text with its
\* imports inlined has no "/** ... */" block, or one of name, version,
\* author is absent from the metadata, the run stops before MinifyContent
\* and the working directory stays as it was.
WrittenOnlyAfterEveryStage ==
    /\ xPc \in BeforeSave => xFiles = xInitial
    /\ xFiles # xInitial =>
           /\ ~ImportMissing
           /\ HasDocBlock(xInput)
           /\ MainKeys \subseteq DOMAIN xMetadata
           /\ get_name(xConfig, xMetadata).error = ""
    /\ (xPc \notin {"start", "prepared", "raised", "exited"} \/ xFiles # xInitial)
           => ~MustAbort

\* C7 (as stated): when the entry text has no "/** ... */" block, no file is
\* created or modified.
NoBlockInEntryNoOutput ==
    ~HasDocBlock(EntryText) => xFiles = xInitial

\* A run has left through log("crit", ...) for want of a doc comment, with
\* its imports inlined and nothing written.
AbortedRunReached ==
    /\ xPc = "exited"
    /\ Len(FindImports(EntryText)) > 0
    /\ ~HasDocBlock(xInput)
    /\ xFiles = xInitial

\* The artifact of a run that has saved it.
Artifact == xFiles[OutputPath(xConfig, get_name(xConfig, xMetadata).value)]

\* C8 (as amended): the option that turns the minifier on is
\* options.doMimize: the artifact is the doc comment, a newline, and the
\* inlined text minified when doMimize is true, unchanged when it is false
\* or absent.
MinifyFollowsDoMimize ==
    xPc \in {"saved", "finished", "notInstalled"} =>
        Artifact = xComment \o "\n" \o
            (IF "doMimize" \in DOMAIN xConfig /\ xConfig["doMimize"]
             THEN minify(xInput, xConfig.type) ELSE xInput)

\* C8 (as stated): the option is options.doMinify.
MinifyFollowsDoMinify ==
    xPc \in {"saved", "finished", "notInstalled"} =>
        Artifact = xComment \o "\n" \o
            (IF "doMinify" \in DOMAIN xConfig /\ xConfig["doMinify"]
             THEN minify(xInput, xConfig.type) ELSE xInput)

\* An artifact was saved whose content minification had changed.
MinifiedArtifactReached ==
    /\ xPc = "saved"
    /\ WantsMinify(xConfig)
    /\ xContent # xInput
    /\ Artifact = xComment \o "\n" \o xContent

=============================================================================
